---- MODULE Spec2Model ----
(***************************************************************************)
(* Model of raft.js (Request Animation Frame Threshold helper).           *)
(*                                                                         *)
(* One Raft instance in a browser: the constructor's option defaulting,   *)
(* the loop step (FPS sample, max, ring buffer, average, callback         *)
(* decision, calibration feed, rescheduling through setTimeout and        *)
(* requestAnimationFrame), cancel and calibrateTargetFps.                  *)
(*                                                                         *)
(* Numbers.  FPS samples are integers or JavaScript's Infinity            *)
(* (Math.floor(1000/0)); Infinity is the largest value of the model and   *)
(* absorbs addition and division.  targetFps is a rational num/den        *)
(* (60.5 is 121/2); the model's rationals are exact where the code uses   *)
(* doubles.  Handles of setTimeout and requestAnimationFrame are opaque   *)
(* and unique; the model names the timeout created by the k-th step k and *)
(* the animation-frame request created by timeout k also k; 0 stands for  *)
(* undefined.  The host is a browser: window exists, so cancel() reaches   *)
(* clearTimeout and cancelAnimationFrame.                                  *)
(*                                                                         *)
(* Two callers are specified.  Spec: the caller starts the loop once and   *)
(* calls calibrateTargetFps at any time; callbacks leave the instance       *)
(* alone.  SpecSched: the caller calls loop() and cancel() at any time,    *)
(* also while a step is pending and from inside callbacks.                 *)
(***************************************************************************)
EXTENDS Integers, Sequences, FiniteSets, TLC

\* ---------------------------------------------------------------- bounds
MaxFrames == 3          \* steps explored per instance
MaxCalibrations == 2    \* calls of calibrateTargetFps per instance

\* ------------------------------------------------------ values of the code
Infinity == 1000000     \* Math.floor(1000/0)
Null == -1000000        \* null: avgFps before the first step
Undefined == 0          \* an option left out, or a falsy one (0, undefined)
EpochGap == 1000000000  \* Date.now() exceeds performance.now() by at least this

DefaultBufferLength == 3
DefaultFrameCount == 60
DefaultTargetFps == [num |-> 121, den |-> 2]

\* Milliseconds between two readings of the same clock, one or more frames
\* apart; a loop() call of the caller may also come within the same millisecond.
ElapsedValues == {40, 50, 100}
CallElapsedValues == ElapsedValues \cup {0}
OptBufferLengths == {Undefined, 2}
OptTargetFps == {Undefined, 10}
OptUseAverage == {"true", "false"}
OptCalibrationPeriod == {Undefined, 1000}
\* Arguments of calibrateTargetFps; Undefined is the call without an argument.
CalFrameCounts == {Undefined, 1, 2}

VARIABLES
    options,                \* the constructor's argument
    hasPerformanceNow,      \* whether performance.now exists (Raft.prototype.now)
    error,                  \* "none", or the exception the constructor threw
    frames_,
    lastTimeClock,          \* the clock that produced this.lastTime
    maxFps,
    avgFps,
    fpsBuffer,              \* function 0..fpsBufferLength-1 -> sample
    bufferIndex,
    targetFps,              \* [num, den]
    updatingTargetFps,
    frameCount,
    calibrateTargetBuffer_,
    calibrationTimers,      \* pending recalibration timers
    timeout,                \* this.timeout: handle last returned by setTimeout
    request,                \* this.request: handle last returned by requestAnimationFrame
    pendingTimeouts,        \* host: delayed invocations not yet fired nor cleared
    pendingRafs,            \* host: animation-frame requests not yet fired nor cancelled
    calls,                  \* callbacks invoked by the most recent step, in order
    lastStep,               \* the most recent step: trigger, sample, calibration flag
    \* history of the caller's operations
    canceled,               \* since the last loop() call: what the last cancel() found
                            \* pending (at), and whether cancel() was called twice in a row
    singleChain,            \* loop() was never called while something was pending
    lastWasCancel,          \* the previous operation was cancel()
    calibrations,           \* number of calibrateTargetFps calls so far
    calReq,                 \* argument of the most recent calibrateTargetFps call
    sinceCal,               \* samples of the steps since that call (first calReq of them)
    restarted               \* that call came during a calibration that had gathered samples

vars == <<options, hasPerformanceNow, error, frames_, lastTimeClock, maxFps, avgFps,
          fpsBuffer, bufferIndex, targetFps, updatingTargetFps, frameCount,
          calibrateTargetBuffer_, calibrationTimers, timeout, request,
          pendingTimeouts, pendingRafs, calls, lastStep,
          canceled, singleChain, lastWasCancel, calibrations, calReq, sinceCal, restarted>>

config == <<options, hasPerformanceNow, error>>

\* ------------------------------------------------------- option defaulting
\* the option taken as given, without the || true
useAverage_honoured == options.useAverage = "true"

\* var useAverage = options.useAverage || true;
useAverage == IF options.useAverage = "true" THEN TRUE ELSE TRUE

\* options.fpsBufferLength || 3
fpsBufferLength ==
    IF options.fpsBufferLength # Undefined THEN options.fpsBufferLength
    ELSE DefaultBufferLength

\* options.targetFps || 60.5
InitialTargetFps ==
    IF options.targetFps # Undefined THEN [num |-> options.targetFps, den |-> 1]
    ELSE DefaultTargetFps

\* options.calibrationPeriod || null
calibrationPeriod == options.calibrationPeriod

hasInaction == options.hasInaction
hasAlways == options.hasAlways

\* --------------------------------------------------------------- arithmetic
Plus(a, b) == IF a = Infinity \/ b = Infinity THEN Infinity ELSE a + b

\* Math.round in place of Math.floor
FloorDiv_round(a, n) == IF a = Infinity THEN Infinity ELSE (2 * a + n) \div (2 * n)

\* Math.floor(a / n), n a positive integer
FloorDiv(a, n) == IF a = Infinity THEN Infinity ELSE a \div n

\* fps = Math.floor(1000/(time - this.lastTime))
Fps(elapsed) == IF elapsed = 0 THEN Infinity ELSE 1000 \div elapsed

\* the assignment without its comparison
NewMaxFps_last(fps, max) == fps

\* if (fps > this.maxFps) this.maxFps = fps
NewMaxFps(fps, max) == IF fps > max THEN fps ELSE max

\* this.fpsBuffer[this.bufferIndex] = fps
WriteBuffer(buf, idx, fps) == [buf EXCEPT ![idx] = fps]

\* the index advanced without wrapping around
NextIndex_noWrap(idx, len) == idx + 1

\* this.bufferIndex = (this.bufferIndex + 1) % fpsBufferLength
NextIndex(idx, len) == (idx + 1) % len

RECURSIVE SumUpTo(_, _)
SumUpTo(buf, n) == IF n = 0 THEN 0 ELSE Plus(SumUpTo(buf, n - 1), buf[n - 1])

\* for (i = 0; i < fpsBufferLength; i++) bufferSum += this.fpsBuffer[i]
BufferSum(buf, len) == SumUpTo(buf, len)

\* >= in place of >
GreaterThanTimes_orEqual(a, t, len) ==
    IF a = Infinity THEN TRUE
    ELSE IF t.num = Infinity THEN FALSE
    ELSE a * t.den >= t.num * len

\* a > t * len, t = num/den (Infinity * len = Infinity, and Infinity > Infinity is false)
GreaterThanTimes(a, t, len) ==
    IF t.num = Infinity THEN FALSE
    ELSE IF a = Infinity THEN TRUE
    ELSE a * t.den > t.num * len

\* the condition of line 94-95
ShouldAct(updating, useAvg, bufferSum, fps, target, len) ==
    /\ ~updating
    /\ \/ useAvg /\ GreaterThanTimes(bufferSum, target, len)
       \/ ~useAvg /\ GreaterThanTimes(fps, target, 1)

Call(name, frame, fps, avg, max) ==
    [name |-> name, frame |-> frame, fps |-> fps, avgFps |-> avg, maxFps |-> max]

\* `else if (hasAlways)` in place of `if (hasAlways)`
Callbacks_alwaysElse(act, frame, fps, avg, max) ==
    IF act THEN <<Call("action", frame, fps, avg, max)>>
    ELSE IF hasInaction THEN <<Call("inaction", frame, fps, avg, max)>>
    ELSE IF hasAlways THEN <<Call("always", frame, fps, avg, max)>>
    ELSE <<>>

\* the callbacks a step invokes, in order (lines 94-100)
Callbacks(act, frame, fps, avg, max) ==
    (IF act THEN <<Call("action", frame, fps, avg, max)>>
     ELSE IF hasInaction THEN <<Call("inaction", frame, fps, avg, max)>>
     ELSE <<>>)
    \o (IF hasAlways THEN <<Call("always", frame, fps, avg, max)>> ELSE <<>>)

RECURSIVE SumSeq(_)
SumSeq(s) == IF s = <<>> THEN 0 ELSE Plus(Head(s), SumSeq(Tail(s)))

\* the average without the 0.5 offset
CalibratedTarget_noOffset(samples) ==
    IF SumSeq(samples) = Infinity THEN [num |-> Infinity, den |-> 1]
    ELSE [num |-> SumSeq(samples), den |-> Len(samples)]

\* this.targetFps = (bufferSum / this.calibrateTargetBuffer_.length) + 0.5
CalibratedTarget(samples) ==
    IF SumSeq(samples) = Infinity THEN [num |-> Infinity, den |-> 1]
    ELSE [num |-> 2 * SumSeq(samples) + Len(samples), den |-> 2 * Len(samples)]

\* frameCount || 60
EffectiveFrameCount(n) == IF n # Undefined THEN n ELSE DefaultFrameCount

\* clearing the handles of lines 64-65 (timeout_, request_: always null)
Clear_nullHandle(pending, handle) == pending

\* window.clearTimeout(h) / window.cancelAnimationFrame(h)
Clear(pending, handle) == pending \ {handle}

\* ------------------------------------------------------------ construction
\* `new Raft(options)`: with a calibrationPeriod the constructor calls
\* this.calibrateTargetFps() on line 61, before line 126 assigns it, and throws.
Init ==
    /\ options \in [useAverage : OptUseAverage,
                    fpsBufferLength : OptBufferLengths,
                    targetFps : OptTargetFps,
                    calibrationPeriod : OptCalibrationPeriod,
                    hasInaction : BOOLEAN,
                    hasAlways : BOOLEAN]
    /\ hasPerformanceNow \in BOOLEAN
    /\ error = IF calibrationPeriod # Undefined THEN "TypeError" ELSE "none"
    /\ frames_ = 0
    /\ lastTimeClock = "Date.now"
    /\ maxFps = 0
    /\ avgFps = Null
    /\ fpsBuffer = [i \in 0 .. fpsBufferLength - 1 |-> 0]
    /\ bufferIndex = 0
    /\ targetFps = InitialTargetFps
    /\ updatingTargetFps = FALSE
    /\ frameCount = Undefined
    /\ calibrateTargetBuffer_ = <<>>
    /\ calibrationTimers = 0
    /\ timeout = Undefined
    /\ request = Undefined
    /\ pendingTimeouts = {}
    /\ pendingRafs = {}
    /\ calls = <<>>
    /\ lastStep = [trigger |-> "none", fps |-> Null, updating |-> FALSE, cancel |-> FALSE]
    /\ canceled = [at |-> "no", twice |-> FALSE]
    /\ singleChain = TRUE
    /\ lastWasCancel = FALSE
    /\ calReq = Undefined
    /\ calibrations = 0
    /\ sinceCal = <<>>
    /\ restarted = FALSE

\* -------------------------------------------------------------------- steps
NowClock == IF hasPerformanceNow THEN "performance.now" ELSE "Date.now"

\* time - this.lastTime: a difference of two readings of one clock, or of a
\* performance.now() reading and the constructor's Date.now() reading.
Elapsed(e) == IF lastTimeClock = NowClock THEN e ELSE e - EpochGap

\* the sample pushed without the decrement of this.frameCount
UpdateCalibrationBuffer_noCount(fps) ==
    LET buf == Append(calibrateTargetBuffer_, fps)
    IN  [buffer |-> buf,
         frameCount |-> frameCount,
         updating |-> TRUE,
         target |-> targetFps]

\* this.updateCalibrationBuffer_(fps) (lines 145-161): the new values of
\* calibrateTargetBuffer_, frameCount, updatingTargetFps and targetFps.
UpdateCalibrationBuffer(fps) ==
    LET buf == Append(calibrateTargetBuffer_, fps)
        done == frameCount - 1 < 1
    IN  [buffer |-> buf,
         frameCount |-> frameCount - 1,
         updating |-> ~done,
         target |-> IF done THEN CalibratedTarget(buf) ELSE targetFps]

\* The body of this.loop (lines 72-108).  pT and pR are the host's pending
\* sets when the step starts; cbCancel says that a callback of this step calls
\* this.cancel().
StepBody(trigger, e, cbCancel, pT, pR) ==
    LET fps == Fps(Elapsed(e))
        max1 == NewMaxFps(fps, maxFps)
        buf1 == WriteBuffer(fpsBuffer, bufferIndex, fps)
        bufferSum == BufferSum(buf1, fpsBufferLength)
        avg1 == FloorDiv(bufferSum, fpsBufferLength)
        act == ShouldAct(updatingTargetFps, useAverage, bufferSum, fps,
                         targetFps, fpsBufferLength)
        cbs == Callbacks(act, frames_ + 1, fps, avg1, max1)
        pT1 == IF cbCancel THEN Clear(pT, timeout) ELSE pT
        pR1 == IF cbCancel THEN Clear(pR, request) ELSE pR
        cal == UpdateCalibrationBuffer(fps)
    IN  /\ frames_ < MaxFrames
        /\ cbCancel => cbs # <<>>
        /\ frames_' = frames_ + 1
        /\ lastTimeClock' = NowClock
        /\ maxFps' = max1
        /\ fpsBuffer' = buf1
        /\ bufferIndex' = NextIndex(bufferIndex, fpsBufferLength)
        /\ avgFps' = avg1
        /\ calls' = cbs
        /\ lastStep' = [trigger |-> trigger, fps |-> fps,
                        updating |-> updatingTargetFps, cancel |-> cbCancel]
        \* if (updatingTargetFps) this.updateCalibrationBuffer_(fps)
        /\ IF updatingTargetFps
           THEN /\ calibrateTargetBuffer_' = cal.buffer
                /\ frameCount' = cal.frameCount
                /\ updatingTargetFps' = cal.updating
                /\ targetFps' = cal.target
           ELSE UNCHANGED <<calibrateTargetBuffer_, frameCount, updatingTargetFps, targetFps>>
        \* this.timeout = setTimeout(...)
        /\ timeout' = frames_ + 1
        /\ pendingTimeouts' = pT1 \cup {frames_ + 1}
        /\ pendingRafs' = pR1
        /\ request' = request
        /\ sinceCal' = IF Len(sinceCal) < EffectiveFrameCount(calReq)
                       THEN Append(sinceCal, fps) ELSE sinceCal
        /\ lastWasCancel' = FALSE
        /\ UNCHANGED <<config, calibrationTimers, calibrations, calReq, restarted>>

NothingPending == pendingTimeouts = {} /\ pendingRafs = {}

\* The caller calls raft.loop(); a callback of the step calls cancel() when
\* cbCancel.
LoopCall(cbCancel) ==
    /\ error = "none"
    /\ \E e \in CallElapsedValues : StepBody("call", e, cbCancel, pendingTimeouts, pendingRafs)
    /\ canceled' = [at |-> IF cbCancel THEN "callback" ELSE "no", twice |-> FALSE]
    /\ singleChain' = (singleChain /\ NothingPending)

\* The host runs the animation-frame request h: this.loop is called.
RafCall(h, cbCancel) ==
    /\ \E e \in ElapsedValues :
          StepBody("raf", e, cbCancel, pendingTimeouts, pendingRafs \ {h})
    /\ canceled' = IF cbCancel THEN [canceled EXCEPT !.at = "callback"] ELSE canceled
    /\ UNCHANGED singleChain

\* a repeating timer (setInterval): the delayed function stays pending
TimeoutFires_interval ==
    /\ \E h \in pendingTimeouts :
          /\ pendingTimeouts' = pendingTimeouts
          /\ pendingRafs' = pendingRafs \cup {h}
          /\ request' = h
    /\ lastWasCancel' = FALSE
    /\ UNCHANGED <<config, frames_, lastTimeClock, maxFps, avgFps, fpsBuffer, bufferIndex,
                   targetFps, updatingTargetFps, frameCount, calibrateTargetBuffer_,
                   calibrationTimers, timeout, calls, lastStep,
                   canceled, singleChain, calibrations, calReq, sinceCal, restarted>>

\* The delayed function of lines 106-108 runs:
\* this.request = requestAnimationFrame(this.loop).
TimeoutFires ==
    /\ \E h \in pendingTimeouts :
          /\ pendingTimeouts' = pendingTimeouts \ {h}
          /\ pendingRafs' = pendingRafs \cup {h}
          /\ request' = h
    /\ lastWasCancel' = FALSE
    /\ UNCHANGED <<config, frames_, lastTimeClock, maxFps, avgFps, fpsBuffer, bufferIndex,
                   targetFps, updatingTargetFps, frameCount, calibrateTargetBuffer_,
                   calibrationTimers, timeout, calls, lastStep,
                   canceled, singleChain, calibrations, calReq, sinceCal, restarted>>

\* ---- a caller that starts the loop once; its callbacks leave the instance alone
StartLoop == NothingPending /\ LoopCall(FALSE)

FrameFires == \E h \in pendingRafs : RafCall(h, FALSE)

\* The caller calls raft.calibrateTargetFps(n) (lines 126-137).
CalibrateTargetFps ==
    /\ error = "none"
    /\ calibrations < MaxCalibrations
    /\ calibrations' = calibrations + 1
    /\ \E n \in CalFrameCounts :
          /\ frameCount' = EffectiveFrameCount(n)
          /\ calReq' = n
    /\ calibrateTargetBuffer_' = <<>>
    /\ updatingTargetFps' = TRUE
    /\ calibrationTimers' = IF calibrationPeriod # Undefined
                            THEN calibrationTimers + 1 ELSE calibrationTimers
    /\ sinceCal' = <<>>
    /\ restarted' = (updatingTargetFps /\ calibrateTargetBuffer_ # <<>>)
    /\ lastWasCancel' = FALSE
    /\ UNCHANGED <<config, frames_, lastTimeClock, maxFps, avgFps, fpsBuffer, bufferIndex,
                   targetFps, timeout, request, pendingTimeouts, pendingRafs, calls,
                   lastStep, canceled, singleChain>>

Next == StartLoop \/ TimeoutFires \/ FrameFires \/ CalibrateTargetFps

Spec == Init /\ [][Next]_vars

\* ---- a caller that calls loop() and cancel() at any time, also from callbacks
Loop == \E cbCancel \in BOOLEAN : LoopCall(cbCancel)

RafFires == \E h \in pendingRafs, cbCancel \in BOOLEAN : RafCall(h, cbCancel)

\* What cancel() finds pending.
PendingKind ==
    IF Cardinality(pendingTimeouts) + Cardinality(pendingRafs) > 1 THEN "several"
    ELSE IF pendingTimeouts # {} THEN "timeout"
    ELSE IF pendingRafs # {} THEN "raf"
    ELSE "nothing"

\* The caller calls raft.cancel() between steps (lines 114-119).
Cancel ==
    /\ error = "none"
    /\ pendingTimeouts' = Clear(pendingTimeouts, timeout)
    /\ pendingRafs' = Clear(pendingRafs, request)
    /\ canceled' = IF lastWasCancel THEN [canceled EXCEPT !.twice = TRUE]
                   ELSE [canceled EXCEPT !.at = PendingKind]
    /\ lastWasCancel' = TRUE
    /\ UNCHANGED <<config, frames_, lastTimeClock, maxFps, avgFps, fpsBuffer, bufferIndex,
                   targetFps, updatingTargetFps, frameCount, calibrateTargetBuffer_,
                   calibrationTimers, timeout, request, calls, lastStep,
                   singleChain, calibrations, calReq, sinceCal, restarted>>

NextSched == Loop \/ TimeoutFires \/ RafFires \/ Cancel

\* The instances of the scheduling runs: every choice of callbacks and clock,
\* one ring buffer length and target.
InitSched ==
    /\ Init
    /\ options.useAverage = "true"
    /\ options.fpsBufferLength = 2
    /\ options.targetFps = 10

SpecSched == InitSched /\ [][NextSched]_vars

\* ------------------------------------------------------------------- claims
Stepped == lastStep.trigger # "none"
Called(name) == \E i \in 1 .. Len(calls) : calls[i].name = name
\* a step happens that is not a loop() call of the caller
HostStep == frames_' # frames_ /\ lastStep'.trigger = "raf"

\* C1: with one chain (loop() never called while a step was pending), once
\* cancel() was called between steps, while the delayed invocation or the
\* animation-frame request was pending, no step runs until loop() is called.
C1_CancelBetweenStepsStops ==
    [][(singleChain /\ canceled.at \in {"timeout", "raf"}) => ~HostStep]_vars

C1_Witness ==
    /\ singleChain
    /\ canceled.at = "raf"
    /\ frames_ >= 2
    /\ NothingPending

\* C2: once cancel() was called from inside a callback of a step, no further
\* step runs until loop() is called again.
C2_CancelInCallbackStops ==
    [][canceled.at = "callback" => ~HostStep]_vars

\* C3: cancel() called twice in a row, or on a fresh instance, raises no error,
\* leaves the state as one call would, and is followed by no further steps.
C3_CancelIdempotent ==
    [][/\ (lastWasCancel /\ lastWasCancel') =>
              UNCHANGED <<error, frames_, timeout, request, pendingTimeouts, pendingRafs>>
       /\ (canceled.twice \/ (canceled.at = "nothing" /\ frames_ = 0)) => ~HostStep
      ]_vars

\* C4: loop() called while the loop is running creates no second chain: at most
\* one step is pending at any time, and after a single cancel() none is.
C4_LoopIdempotent ==
    /\ Cardinality(pendingTimeouts) + Cardinality(pendingRafs) <= 1
    /\ lastWasCancel => NothingPending

\* C5: a step that runs while calibration is active invokes neither action nor
\* inaction.
C5_NoDecisionWhileCalibrating ==
    (Stepped /\ lastStep.updating) => (~Called("action") /\ ~Called("inaction"))

\* C6: with an always callback, every step invokes it exactly once, with the
\* frame count, instantaneous, average and max FPS of that step, which are also
\* the arguments of the action or inaction call of the step.
C6_AlwaysOncePerStep ==
    (Stepped /\ hasAlways) =>
        /\ Cardinality({i \in 1 .. Len(calls) : calls[i].name = "always"}) = 1
        /\ \A i \in 1 .. Len(calls) :
              calls[i] = Call(calls[i].name, frames_, lastStep.fps, avgFps, maxFps)

C6_Witness ==
    /\ hasAlways
    /\ Stepped
    /\ lastStep.updating
    /\ Len(calls) = 2
    /\ frames_ >= 2

\* C7: after calibrateTargetFps(n), n >= 1, calibration is active until n steps
\* have run; the n-th step ends it and sets targetFps to
\* (sum of the n samples / n) + 0.5.
C7_CalibrationLength ==
    calReq >= 1 =>
        /\ Len(sinceCal) < calReq => updatingTargetFps
        /\ Len(sinceCal) = calReq =>
              /\ ~updatingTargetFps
              /\ IF \E i \in 1 .. calReq : sinceCal[i] = Infinity
                 THEN targetFps.num = Infinity
                 ELSE /\ targetFps.num # Infinity
                      /\ 2 * calReq * targetFps.num
                            = targetFps.den * (2 * SumSeq(sinceCal) + calReq)

\* calibrateTargetFps(2), then samples 10 and 20: the target becomes 15.5
C7_Witness ==
    /\ calReq = 2
    /\ sinceCal = <<10, 20>>
    /\ ~updatingTargetFps
    /\ targetFps.num * 2 = 31 * targetFps.den

\* C8: a step outside calibration, with useAverage true, invokes action exactly
\* when the sum of the ring buffer exceeds targetFps x bufferLength, and
\* otherwise inaction when supplied; never both.
C8_AverageDecision ==
    (Stepped /\ ~lastStep.updating /\ useAverage) =>
        LET sum == BufferSum(fpsBuffer, fpsBufferLength)
            above == /\ targetFps.num # Infinity
                     /\ \/ sum = Infinity
                        \/ sum * targetFps.den > targetFps.num * fpsBufferLength
        IN  /\ Called("action") <=> above
            /\ Called("inaction") <=> (~above /\ hasInaction)

\* fpsBufferLength 2, targetFps 10, samples 20, 20: action is called with avgFps 20
C8_Witness ==
    /\ Stepped /\ ~lastStep.updating
    /\ fpsBufferLength = 2
    /\ targetFps = [num |-> 10, den |-> 1]
    /\ fpsBuffer = [i \in 0 .. 1 |-> 20]
    /\ Called("action")
    /\ avgFps = 20

\* C9: an instance constructed with useAverage = false invokes, in a step
\* outside calibration, action exactly when the instantaneous FPS exceeds
\* targetFps, and otherwise inaction when supplied.
C9_InstantDecision ==
    (Stepped /\ ~lastStep.updating /\ options.useAverage = "false") =>
        LET above == /\ targetFps.num # Infinity
                     /\ \/ lastStep.fps = Infinity
                        \/ lastStep.fps * targetFps.den > targetFps.num
        IN  /\ Called("action") <=> above
            /\ Called("inaction") <=> (~above /\ hasInaction)

\* C10: the ring buffer always has exactly bufferLength entries, and after
\* every step avgFps is floor(sum of the ring buffer / bufferLength).
C10_RingBufferAverage ==
    /\ DOMAIN fpsBuffer = 0 .. fpsBufferLength - 1
    /\ Stepped =>
          LET sum == BufferSum(fpsBuffer, fpsBufferLength)
          IN  IF sum = Infinity THEN avgFps = Infinity
              ELSE /\ avgFps * fpsBufferLength <= sum
                   /\ sum < (avgFps + 1) * fpsBufferLength

\* the buffer has wrapped around and the mean is not an integer
C10_Witness ==
    /\ frames_ > fpsBufferLength
    /\ BufferSum(fpsBuffer, fpsBufferLength) # Infinity
    /\ BufferSum(fpsBuffer, fpsBufferLength) % fpsBufferLength # 0

\* C11: maxFps never decreases: after every step it is at least what it was
\* before the step, and at least the instantaneous FPS of the step.
C11_MaxFpsMonotone ==
    [][frames_' # frames_ => (maxFps' >= maxFps /\ maxFps' >= lastStep'.fps)]_vars

\* a step with a sample below the max has left the max alone
C11_Witness ==
    /\ frames_ >= 2
    /\ maxFps > 0
    /\ lastStep.fps < maxFps

\* C12: construction with a calibrationPeriod raises no error and leaves the
\* instance Calibrating: empty accumulation buffer, 60 frames remaining.
C12_ConstructCalibrating ==
    calibrationPeriod # Undefined =>
        /\ error = "none"
        /\ (frames_ = 0 /\ calibrations = 0) =>
              /\ updatingTargetFps
              /\ calibrateTargetBuffer_ = <<>>
              /\ frameCount = DefaultFrameCount

\* C13: with a calibrationPeriod every entry into Calibrating schedules a
\* recalibration timer, the first one at construction, so such an instance
\* always has a timer pending that will re-enter Calibrating.
C13_RecalibrationScheduled ==
    calibrationPeriod # Undefined => calibrationTimers >= 1

C15_OnePendingPerChain ==
    singleChain =>
        /\ Cardinality(pendingTimeouts) + Cardinality(pendingRafs) <= 1
        /\ pendingTimeouts \cup pendingRafs \subseteq {frames_}

\* the chain of one loop() call is at its second host step or later, with its
\* animation-frame request pending
C15_Witness ==
    /\ singleChain
    /\ frames_ >= 2
    /\ lastStep.trigger = "raf"
    /\ pendingRafs = {frames_}
    /\ pendingTimeouts = {}

\* C16: step number k writes its sample into slot (k - 1) mod bufferLength and
\* leaves the other slots alone, so that after k steps the write index is
\* k mod bufferLength, the slots hold the samples of the last
\* min(k, bufferLength) steps, the slots not yet written hold 0 and, from
\* k = bufferLength on, avgFps is the floor of the mean of the last
\* bufferLength samples.
C16_RingBufferContents ==
    [][frames_' # frames_ =>
          /\ DOMAIN fpsBuffer' = 0 .. fpsBufferLength - 1
          /\ \A i \in 0 .. fpsBufferLength - 1 :
                fpsBuffer'[i] = IF i = frames_ % fpsBufferLength THEN lastStep'.fps
                                ELSE IF i >= frames_' THEN 0
                                ELSE fpsBuffer[i]
          /\ bufferIndex' = frames_' % fpsBufferLength
          /\ frames_' >= fpsBufferLength =>
                LET sum == SumUpTo(fpsBuffer', fpsBufferLength)
                IN  IF sum = Infinity THEN avgFps' = Infinity
                    ELSE /\ avgFps' * fpsBufferLength <= sum
                         /\ sum < (avgFps' + 1) * fpsBufferLength]_vars

\* the third step of a buffer of length 2 has overwritten the first sample
C16_Witness ==
    /\ fpsBufferLength = 2
    /\ frames_ = 3
    /\ bufferIndex = 1
    /\ fpsBuffer[0] = lastStep.fps
    /\ fpsBuffer[0] # fpsBuffer[1]

C18_CalibrationCount ==
    updatingTargetFps =>
        Len(calibrateTargetBuffer_) + frameCount
            = (IF calReq = Undefined THEN DefaultFrameCount ELSE calReq)

\* calibrateTargetFps(2) was called during a calibration that had gathered
\* samples, and one step has followed
C18_Witness ==
    /\ updatingTargetFps
    /\ restarted
    /\ calReq = 2
    /\ Len(calibrateTargetBuffer_) = 1
    /\ frameCount = 1

\* C20: in every step, the first one included, the elapsed time is the
\* difference of two readings of one clock, so the instantaneous FPS of the
\* step, and the one passed to its callbacks, is never negative.
C20_FpsNonNegative ==
    Stepped =>
        /\ lastStep.fps >= 0
        /\ \A i \in 1 .. Len(calls) : calls[i].fps >= 0
====
